---- MODULE Spec2Model ----
(***************************************************************************)
(* Model of HelloTriangleApplication (Vulkan bootstrap): window, instance, *)
(* surface, physical-device selection, logical device, run loop, cleanup.  *)
(* The Vulkan/GLFW runtime is the environment: the adapter list and the    *)
(* queue-family arrays are fixed inputs, the result of each create call    *)
(* and the arrival of a close event are nondeterministic.                  *)
(***************************************************************************)
EXTENDS Integers, Sequences, FiniteSets, TLC

VARIABLES
    pc,               \* position of the single thread
    adapters,         \* enumerated physical devices: each a queue-family array
    closeFlag,        \* glfwWindowShouldClose(window)
    loopLog,          \* mainLoop: the flag checks (with what they saw) and polls
    live,             \* handles created and not destroyed
    acquired,         \* handles in order of creation
    destroyed,        \* handles in order of destruction
    stages,           \* initVulkan stages in the order they were entered
    physicalDevice,   \* member: VK_NULL_HANDLE or index into adapters
    devIdx,           \* pickPhysicalDevice: range-for position (1-based)
    examined,         \* adapters handed to isDeviceSuitable, in order
    certified,        \* isDeviceSuitable's indices for the selected adapter
    fqCaller,         \* who called findQueueFamilies
    fqDevice,         \* findQueueFamilies: argument
    i,                \* findQueueFamilies: local i
    indices,          \* findQueueFamilies: local indices / caller's copy
    inspected,        \* family indices read by the current findQueueFamilies
    presentQueries,   \* vkGetPhysicalDeviceSurfaceSupportKHR calls made
    queueCreateInfos, \* createLogicalDevice: requests passed to vkCreateDevice
    graphicsQueue,    \* member
    presentQueue,     \* member
    error,            \* what() of the exception in flight or caught
    exitCode          \* process status, NotExited while running

lifeVars == <<live, acquired, destroyed>>
pickVars == <<physicalDevice, devIdx, examined, certified>>
fqVars   == <<fqCaller, fqDevice, i, indices, inspected, presentQueries>>
devVars  == <<queueCreateInfos, graphicsQueue, presentQueue>>
exitVars == <<error, exitCode>>
vars == <<pc, adapters, closeFlag, loopLog, live, acquired, destroyed, stages,
          physicalDevice, devIdx, examined, certified, fqCaller, fqDevice, i, indices,
          inspected, presentQueries, queueCreateInfos, graphicsQueue,
          presentQueue, error, exitCode>>

----------------------------------------------------------------------------
(* Bounds of the explored inputs *)

MaxAdapters == 3          \* adapters enumerated in a whole run
MaxTotalFamilies == 3     \* queue families of all adapters of a run together
MaxResolverFamilies == 3  \* queue families of the adapter of a resolver run
MaxPolls == 2             \* glfwPollEvents calls of a run
MaxFairAdapters == 2      \* adapters enumerated in a run checked for termination
MaxFairFamilies == 2      \* queue families of all adapters of such a run

----------------------------------------------------------------------------
(* Program constants *)

VK_NULL_HANDLE == 0
NoFamily == -1
EXIT_SUCCESS == 0
EXIT_FAILURE == 1
NotExited == -1
\* a VkQueue member that was never assigned; an assigned one is the pair
\* <<queue family, queue index>> it was retrieved for
Uninit == <<>>
NoError == ""
InstanceMsg == "failed to create instance!"
SurfaceMsg == "failed to create window surface!"
NoGpuMsg == "failed to find GPUs with Vulkan support!"
NoSuitableMsg == "failed to find a suitable GPU!"
DeviceMsg == "failed to create logical device!"

----------------------------------------------------------------------------
(* Inputs *)

\* VkQueueFamilyProperties as far as the program reads it, together with the
\* answer vkGetPhysicalDeviceSurfaceSupportKHR gives for that family.
FamilyRecords == [queueCount : {0, 1}, graphics : BOOLEAN, present : BOOLEAN]

\* Families used for whole runs: every capability combination with a queue,
\* and a family that has both capabilities but no queue.
RunFamilyRecords ==
    {f \in FamilyRecords : f.queueCount > 0 \/ (f.graphics /\ f.present)}

SeqsUpTo(S, n) == UNION {[1..k -> S] : k \in 0..n}

\* adapter lists of at most a adapters with at most t families in all
RECURSIVE AdapterLists(_, _)
AdapterLists(a, t) ==
    IF a = 0 THEN {<<>>}
    ELSE {<<>>} \cup
         UNION {{<<fams>> \o rest : rest \in AdapterLists(a - 1, t - Len(fams))} :
                  fams \in SeqsUpTo(RunFamilyRecords, t)}

RunInputs == AdapterLists(MaxAdapters, MaxTotalFamilies)
FairInputs == AdapterLists(MaxFairAdapters, MaxFairFamilies)
ResolverInputs == SeqsUpTo(SeqsUpTo(FamilyRecords, MaxResolverFamilies), 1)

----------------------------------------------------------------------------
(* QueueFamilyIndices *)

EmptyIndices == [graphicsFamily |-> NoFamily, presentFamily |-> NoFamily]

isComplete(ind) == ind.graphicsFamily >= 0 /\ ind.presentFamily >= 0

----------------------------------------------------------------------------
(* Order of the stages *)

\* variant: the adapter is picked before the surface is created
InitVulkanOrder_pickBeforeSurface ==
    <<"createInstance", "pickPhysicalDevice", "createSurface",
      "createLogicalDevice">>

InitVulkanOrder ==
    <<"createInstance", "createSurface", "pickPhysicalDevice",
      "createLogicalDevice">>

RunOrder == <<"initWindow">> \o InitVulkanOrder \o <<"mainLoop", "cleanup", "return">>

\* the position control reaches when stage s returns normally
After(s) ==
    LET k == CHOOSE n \in 1..Len(RunOrder) : RunOrder[n] = s
    IN  RunOrder[k + 1]

\* variant: destruction in creation order
CleanupOrder_creationOrder == <<"window", "instance", "surface", "device">>

\* variant: the surface is destroyed before the device
CleanupOrder_surfaceFirst == <<"surface", "device", "instance", "window">>

CleanupOrder == <<"device", "surface", "instance", "window">>

----------------------------------------------------------------------------
(* Initial state: the objects as constructed, before main calls run() *)

InitState ==
    /\ pc = "initWindow"
    /\ closeFlag = FALSE
    /\ loopLog = <<>>
    /\ live = {}
    /\ acquired = <<>>
    /\ destroyed = <<>>
    /\ stages = <<>>
    /\ physicalDevice = VK_NULL_HANDLE
    /\ devIdx = 0
    /\ examined = <<>>
    /\ certified = EmptyIndices
    /\ fqCaller = "none"
    /\ fqDevice = VK_NULL_HANDLE
    /\ i = 0
    /\ indices = EmptyIndices
    /\ inspected = {}
    /\ presentQueries = {}
    /\ queueCreateInfos = <<>>
    /\ graphicsQueue = Uninit
    /\ presentQueue = Uninit
    /\ error = NoError
    /\ exitCode = NotExited

Init == InitState /\ adapters \in RunInputs

InitResolver == InitState /\ adapters \in ResolverInputs

InitFair == InitState /\ adapters \in FairInputs

----------------------------------------------------------------------------
(* Helpers shared by the actions *)

\* a create call succeeded: the handle exists from now on
Acquire(h) ==
    /\ live' = live \cup {h}
    /\ acquired' = Append(acquired, h)
    /\ UNCHANGED destroyed

\* variant: the failed call is tried again
Throw_retry(msg) ==
    /\ error' = msg
    /\ pc' = pc
    /\ UNCHANGED exitCode

\* throw std::runtime_error(msg): nothing between the throw and main's
\* handler catches it, and run() has no cleanup on that path
Throw(msg) ==
    /\ error' = msg
    /\ pc' = "thrown"
    /\ UNCHANGED exitCode

Enter(s) == stages' = Append(stages, s)

----------------------------------------------------------------------------
(* run(): initWindow *)

InitWindow ==
    /\ pc = "initWindow"
    /\ Acquire("window")
    /\ pc' = After("initWindow")
    /\ UNCHANGED <<adapters, closeFlag, loopLog, stages, pickVars, fqVars, devVars,
                   exitVars>>

(* initVulkan: createInstance *)
CreateInstance ==
    /\ pc = "createInstance"
    /\ Enter("createInstance")
    /\ \E ok \in BOOLEAN :
          IF ok
          THEN /\ Acquire("instance")
               /\ pc' = After("createInstance")
               /\ UNCHANGED exitVars
          ELSE /\ Throw(InstanceMsg)
               /\ UNCHANGED lifeVars
    /\ UNCHANGED <<adapters, closeFlag, loopLog, pickVars, fqVars, devVars>>

(* initVulkan: createSurface *)
CreateSurface ==
    /\ pc = "createSurface"
    /\ Enter("createSurface")
    /\ \E ok \in BOOLEAN :
          IF ok
          THEN /\ Acquire("surface")
               /\ pc' = After("createSurface")
               /\ UNCHANGED exitVars
          ELSE /\ Throw(SurfaceMsg)
               /\ UNCHANGED lifeVars
    /\ UNCHANGED <<adapters, closeFlag, loopLog, pickVars, fqVars, devVars>>

----------------------------------------------------------------------------
(* initVulkan: pickPhysicalDevice *)

\* enumerate; an empty list is an error, otherwise start the range-for
PickStart ==
    /\ pc = "pickPhysicalDevice"
    /\ Enter("pickPhysicalDevice")
    /\ IF Len(adapters) = 0
       THEN /\ Throw(NoGpuMsg)
            /\ UNCHANGED devIdx
       ELSE /\ devIdx' = 1
            /\ pc' = "pick_loop"
            /\ UNCHANGED exitVars
    /\ UNCHANGED <<adapters, closeFlag, loopLog, lifeVars, physicalDevice, examined,
                   certified, fqVars, devVars>>

\* loop body, first half: isDeviceSuitable(device) calls findQueueFamilies
PickExamine ==
    /\ pc = "pick_loop"
    /\ devIdx <= Len(adapters)
    /\ examined' = Append(examined, devIdx)
    /\ fqCaller' = "pick"
    /\ fqDevice' = devIdx
    /\ i' = 0
    /\ indices' = EmptyIndices
    /\ inspected' = {}
    /\ pc' = "findQueueFamilies"
    /\ UNCHANGED <<adapters, closeFlag, loopLog, lifeVars, stages, physicalDevice,
                   devIdx, certified, presentQueries, devVars, exitVars>>

\* the range-for ran off the end of devices
PickLoopEnd ==
    /\ pc = "pick_loop"
    /\ devIdx > Len(adapters)
    /\ pc' = "pick_check"
    /\ UNCHANGED <<adapters, closeFlag, loopLog, lifeVars, stages, pickVars, fqVars,
                   devVars, exitVars>>

\* after the loop: nothing selected is an error
PickCheck ==
    /\ pc = "pick_check"
    /\ IF physicalDevice = VK_NULL_HANDLE
       THEN Throw(NoSuitableMsg)
       ELSE /\ pc' = After("pickPhysicalDevice")
            /\ UNCHANGED exitVars
    /\ UNCHANGED <<adapters, closeFlag, loopLog, lifeVars, stages, pickVars, fqVars,
                   devVars>>

----------------------------------------------------------------------------
(* findQueueFamilies *)

\* variant: the queue count is not looked at
graphicsMatch_ignoreCount(f) == f.graphics

graphicsMatch(f) == f.queueCount > 0 /\ f.graphics

presentMatch(f) == f.queueCount > 0 /\ f.present

\* variant: a field once set is kept (first match wins)
FqBody_firstMatch(ind, f, idx) ==
    [graphicsFamily |-> IF graphicsMatch(f) /\ ind.graphicsFamily < 0
                        THEN idx ELSE ind.graphicsFamily,
     presentFamily  |-> IF presentMatch(f) /\ ind.presentFamily < 0
                        THEN idx ELSE ind.presentFamily]

\* one pass through the loop body for family idx, up to the isComplete test
FqBody(ind, f, idx) ==
    [graphicsFamily |-> IF graphicsMatch(f) THEN idx ELSE ind.graphicsFamily,
     presentFamily  |-> IF presentMatch(f) THEN idx ELSE ind.presentFamily]

\* if (indices.isComplete()) break;
FqBreaks_never(ind) == FALSE

FqBreaks(ind) == isComplete(ind)

\* the loop from family idx on, as a function of the family array (0-based idx)
RECURSIVE findQueueFamiliesFrom(_, _, _)
findQueueFamiliesFrom(fams, idx, ind) ==
    IF idx >= Len(fams)
    THEN ind
    ELSE LET nxt == FqBody(ind, fams[idx + 1], idx)
         IN  IF FqBreaks(nxt) THEN nxt
             ELSE findQueueFamiliesFrom(fams, idx + 1, nxt)

findQueueFamilies(fams) == findQueueFamiliesFrom(fams, 0, EmptyIndices)

\* one iteration: read family i, query present support, test completeness
FqIterate ==
    /\ pc = "findQueueFamilies"
    /\ i < Len(adapters[fqDevice])
    /\ LET ind == FqBody(indices, adapters[fqDevice][i + 1], i)
       IN  /\ indices' = ind
           /\ IF FqBreaks(ind)
              THEN /\ pc' = "fq_return"
                   /\ i' = i
              ELSE /\ pc' = "findQueueFamilies"
                   /\ i' = i + 1
    /\ inspected' = inspected \cup {i}
    /\ presentQueries' = presentQueries \cup
          {[device |-> fqDevice, family |-> i, live |-> live,
            acquired |-> acquired]}
    /\ UNCHANGED <<adapters, closeFlag, loopLog, lifeVars, stages, pickVars, fqCaller,
                   fqDevice, devVars, exitVars>>

\* the range-for ran off the end of queueFamilies
FqLoopEnd ==
    /\ pc = "findQueueFamilies"
    /\ i >= Len(adapters[fqDevice])
    /\ pc' = "fq_return"
    /\ UNCHANGED <<adapters, closeFlag, loopLog, lifeVars, stages, pickVars, fqVars,
                   devVars, exitVars>>

----------------------------------------------------------------------------
(* isDeviceSuitable and the rest of pickPhysicalDevice's loop body *)

\* variant: suitability decided on the graphics family alone
isDeviceSuitable_graphicsOnly(ind) == ind.graphicsFamily >= 0

\* variant: every device is accepted
isDeviceSuitable_always(ind) == TRUE

isDeviceSuitable(ind) == isComplete(ind)

\* variant: the loop body without its break
PickBreaks_never(suitable) == FALSE

\* the loop body leaves the loop exactly when the device was suitable
PickBreaks(suitable) == suitable

PickDecide ==
    /\ pc = "fq_return"
    /\ fqCaller = "pick"
    /\ LET suitable == isDeviceSuitable(indices)
       IN  /\ physicalDevice' = IF suitable THEN fqDevice ELSE physicalDevice
           /\ certified' = IF suitable THEN indices ELSE certified
           /\ IF PickBreaks(suitable)
              THEN /\ pc' = "pick_check"
                   /\ UNCHANGED devIdx
              ELSE /\ pc' = "pick_loop"
                   /\ devIdx' = devIdx + 1
    /\ UNCHANGED <<adapters, closeFlag, loopLog, lifeVars, stages, examined, fqVars,
                   devVars, exitVars>>

----------------------------------------------------------------------------
(* initVulkan: createLogicalDevice *)

uniqueQueueFamilies(ind) == {ind.graphicsFamily, ind.presentFamily}

\* iteration order of std::set<int>: ascending
RECURSIVE Ascending(_)
Ascending(S) ==
    IF S = {} THEN <<>>
    ELSE LET m == CHOOSE x \in S : \A y \in S : x <= y
         IN  <<m>> \o Ascending(S \ {m})

\* variant: a vector of both indices instead of a set
QueueCreateInfosFor_noDedup(ind) ==
    LET fams == <<ind.graphicsFamily, ind.presentFamily>>
    IN  [k \in 1..Len(fams) |->
            [queueFamilyIndex |-> fams[k], queueCount |-> 1]]

QueueCreateInfosFor(ind) ==
    LET fams == Ascending(uniqueQueueFamilies(ind))
    IN  [k \in 1..Len(fams) |->
            [queueFamilyIndex |-> fams[k], queueCount |-> 1]]

\* first statement: findQueueFamilies(physicalDevice)
CreateLogicalDeviceStart ==
    /\ pc = "createLogicalDevice"
    /\ Enter("createLogicalDevice")
    /\ fqCaller' = "create"
    /\ fqDevice' = physicalDevice
    /\ i' = 0
    /\ indices' = EmptyIndices
    /\ inspected' = {}
    /\ pc' = "findQueueFamilies"
    /\ UNCHANGED <<adapters, closeFlag, loopLog, lifeVars, pickVars, presentQueries,
                   devVars, exitVars>>

\* the rest: build the requests, vkCreateDevice, vkGetDeviceQueue
CreateDevice ==
    /\ pc = "fq_return"
    /\ fqCaller = "create"
    /\ queueCreateInfos' = QueueCreateInfosFor(indices)
    /\ \E ok \in BOOLEAN :
          IF ok
          THEN /\ Acquire("device")
               /\ presentQueue' = <<indices.presentFamily, 0>>
               /\ pc' = After("createLogicalDevice")
               /\ UNCHANGED exitVars
          ELSE /\ Throw(DeviceMsg)
               /\ UNCHANGED <<lifeVars, presentQueue>>
    /\ UNCHANGED <<adapters, closeFlag, loopLog, stages, pickVars, fqVars,
                   graphicsQueue>>

----------------------------------------------------------------------------
(* mainLoop *)

Polls == Len(SelectSeq(loopLog, LAMBDA e : e = "poll"))

\* what a test of the flag leaves in the log
Checked(flag) == IF flag THEN "check_true" ELSE "check_false"

\* variant: do { glfwPollEvents(); } while (!glfwWindowShouldClose(window));
ShouldClose_pollsFirst ==
    /\ pc = "mainLoop"
    /\ Polls < MaxPolls
    /\ \E closeRequested \in BOOLEAN :
          /\ closeFlag' = (closeFlag \/ closeRequested)
          /\ loopLog' = loopLog \o <<"poll", Checked(closeFlag')>>
          /\ pc' = IF closeFlag' THEN After("mainLoop") ELSE "mainLoop"
    /\ UNCHANGED <<adapters, lifeVars, stages, pickVars, fqVars, devVars,
                   exitVars>>

\* variant: the negation is missing from the loop condition
ShouldClose_inverted ==
    /\ pc = "mainLoop"
    /\ loopLog' = Append(loopLog, Checked(closeFlag))
    /\ pc' = IF ~closeFlag THEN After("mainLoop") ELSE "pollEvents"
    /\ UNCHANGED <<adapters, closeFlag, lifeVars, stages, pickVars, fqVars,
                   devVars, exitVars>>

\* variant: while (true)
ShouldClose_ignoresFlag ==
    /\ pc = "mainLoop"
    /\ loopLog' = Append(loopLog, Checked(closeFlag))
    /\ pc' = "pollEvents"
    /\ UNCHANGED <<adapters, closeFlag, lifeVars, stages, pickVars, fqVars,
                   devVars, exitVars>>

\* while (!glfwWindowShouldClose(window))
ShouldClose ==
    /\ pc = "mainLoop"
    /\ loopLog' = Append(loopLog, Checked(closeFlag))
    /\ pc' = IF closeFlag THEN After("mainLoop") ELSE "pollEvents"
    /\ UNCHANGED <<adapters, closeFlag, lifeVars, stages, pickVars, fqVars,
                   devVars, exitVars>>

\* glfwPollEvents(): a pending close request sets the flag
PollEvents ==
    /\ pc = "pollEvents"
    /\ Polls < MaxPolls
    /\ \E closeRequested \in BOOLEAN : closeFlag' = (closeFlag \/ closeRequested)
    /\ loopLog' = Append(loopLog, "poll")
    /\ pc' = "mainLoop"
    /\ UNCHANGED <<adapters, lifeVars, stages, pickVars, fqVars, devVars,
                   exitVars>>

----------------------------------------------------------------------------
(* cleanup *)

\* the next destroy call of cleanup()
Destroy ==
    /\ pc = "cleanup"
    /\ Len(destroyed) < Len(CleanupOrder)
    /\ LET h == CleanupOrder[Len(destroyed) + 1]
       IN  /\ live' = live \ {h}
           /\ destroyed' = Append(destroyed, h)
    /\ UNCHANGED <<pc, adapters, closeFlag, loopLog, acquired, stages, pickVars,
                   fqVars, devVars, exitVars>>

\* glfwTerminate(), and cleanup() returns
Terminate ==
    /\ pc = "cleanup"
    /\ Len(destroyed) = Len(CleanupOrder)
    /\ pc' = After("cleanup")
    /\ UNCHANGED <<adapters, closeFlag, loopLog, lifeVars, stages, pickVars, fqVars,
                   devVars, exitVars>>

----------------------------------------------------------------------------
(* main *)

\* run() returned
MainReturn ==
    /\ pc = "return"
    /\ exitCode' = EXIT_SUCCESS
    /\ pc' = "exited"
    /\ UNCHANGED <<adapters, closeFlag, loopLog, lifeVars, stages, pickVars, fqVars,
                   devVars, error>>

\* variant: the handler swallows the exception
MainCatch_swallow ==
    /\ pc = "thrown"
    /\ exitCode' = EXIT_SUCCESS
    /\ pc' = "exited"
    /\ UNCHANGED <<adapters, closeFlag, loopLog, lifeVars, stages, pickVars,
                   fqVars, devVars, error>>

\* catch (const std::runtime_error&)
MainCatch ==
    /\ pc = "thrown"
    /\ exitCode' = EXIT_FAILURE
    /\ pc' = "exited"
    /\ UNCHANGED <<adapters, closeFlag, loopLog, lifeVars, stages, pickVars, fqVars,
                   devVars, error>>

----------------------------------------------------------------------------

Next ==
    \/ InitWindow
    \/ CreateInstance
    \/ CreateSurface
    \/ PickStart
    \/ PickExamine
    \/ PickLoopEnd
    \/ PickCheck
    \/ FqIterate
    \/ FqLoopEnd
    \/ PickDecide
    \/ CreateLogicalDeviceStart
    \/ CreateDevice
    \/ ShouldClose
    \/ PollEvents
    \/ Destroy
    \/ Terminate
    \/ MainReturn
    \/ MainCatch

Spec == Init /\ [][Next]_vars

\* the same program over one adapter with a longer queue-family array
SpecResolver == InitResolver /\ [][Next]_vars

\* one thread that runs whenever it can take a step
FairSpec == InitFair /\ [][Next]_vars /\ WF_vars(Next)

TypeOK ==
    /\ pc \in {"initWindow", "createInstance", "createSurface",
               "pickPhysicalDevice", "pick_loop", "pick_check",
               "findQueueFamilies", "fq_return", "createLogicalDevice",
               "mainLoop", "pollEvents", "cleanup", "return", "thrown",
               "exited"}
    /\ live \subseteq {"window", "instance", "surface", "device"}
    /\ physicalDevice \in 0..Len(adapters)
    /\ indices.graphicsFamily >= NoFamily
    /\ indices.presentFamily >= NoFamily
    /\ exitCode \in {NotExited, EXIT_SUCCESS, EXIT_FAILURE}

----------------------------------------------------------------------------
(* Vocabulary of the properties, stated on the inputs alone *)

Range(q) == {q[k] : k \in DOMAIN q}

IsPrefix(p, q) == Len(p) <= Len(q) /\ \A k \in 1..Len(p) : p[k] = q[k]

Min(S) == CHOOSE x \in S : \A y \in S : x <= y

Max(S) == CHOOSE x \in S : \A y \in S : x >= y

\* 0-based indices of the families that can serve each purpose
GraphicsQualifying(fams) ==
    {j \in 0..(Len(fams) - 1) : fams[j + 1].queueCount > 0 /\ fams[j + 1].graphics}

PresentQualifying(fams) ==
    {j \in 0..(Len(fams) - 1) : fams[j + 1].queueCount > 0 /\ fams[j + 1].present}

Suitable(fams) == GraphicsQualifying(fams) # {} /\ PresentQualifying(fams) # {}

\* indices by which a family of each kind has appeared
CompleteBy(fams) ==
    {k \in 0..(Len(fams) - 1) :
        /\ \E g \in GraphicsQualifying(fams) : g <= k
        /\ \E p \in PresentQualifying(fams) : p <= k}

\* the last index the scan reaches (-1 for an empty array)
LastScanned(fams) ==
    IF CompleteBy(fams) # {} THEN Min(CompleteBy(fams)) ELSE Len(fams) - 1

GreatestUpTo(S, k) ==
    IF {x \in S : x <= k} = {} THEN -1 ELSE Max({x \in S : x <= k})

ExpectedSelection(fams) ==
    [graphicsFamily |-> GreatestUpTo(GraphicsQualifying(fams), LastScanned(fams)),
     presentFamily  |-> GreatestUpTo(PresentQualifying(fams), LastScanned(fams))]

AllHandles == <<"window", "instance", "surface", "device">>

ReverseHandles == <<"device", "surface", "instance", "window">>

----------------------------------------------------------------------------
(* Properties *)

\* C1: in a run that acquired window, instance, surface and device in that
\* order, destruction follows the order device, surface, instance, window:
\* at every moment the destroyed handles are a prefix of that order, and once
\* cleanup has returned all four have been destroyed, each once.
C1_TeardownOrder ==
    acquired = AllHandles =>
        /\ IsPrefix(destroyed, ReverseHandles)
        /\ live = Range(AllHandles) \ Range(destroyed)
        /\ pc \in {"return", "exited"} => destroyed = ReverseHandles

C1_Witness ==
    /\ pc = "exited"
    /\ exitCode = EXIT_SUCCESS
    /\ acquired = AllHandles
    /\ destroyed = ReverseHandles

\* C2: when an initialization stage fails, every handle acquired before the
\* failure has been released by the time the process terminates.
C2_NoLeakAtFailureExit ==
    (pc = "exited" /\ exitCode = EXIT_FAILURE) => live = {}

\* C3: pickPhysicalDevice selects the first adapter, in enumeration order,
\* that has a graphics-qualifying and a present-qualifying family, and the
\* adapters handed to isDeviceSuitable are exactly those up to the selected
\* one, each once, in order.
C3_FirstSuitableSelected ==
    /\ \A k \in DOMAIN examined : examined[k] = k
    /\ physicalDevice # VK_NULL_HANDLE =>
          /\ Suitable(adapters[physicalDevice])
          /\ \A j \in 1..(physicalDevice - 1) : ~Suitable(adapters[j])
          /\ Len(examined) = physicalDevice

C3_Witness ==
    /\ pc = "mainLoop"
    /\ Len(adapters) = 3
    /\ physicalDevice = 2
    /\ ~Suitable(adapters[1])
    /\ Suitable(adapters[3])
    /\ examined = <<1, 2>>

\* C4: with an empty adapter list the run ends with the no-GPU error and no
\* handle is left acquired and undestroyed when the process terminates.
C4_EmptyListLeavesNothing ==
    (pc = "exited" /\ Len(adapters) = 0 /\ "pickPhysicalDevice" \in Range(stages)) =>
        /\ error = NoGpuMsg
        /\ live = {}

\* C5: over a non-empty adapter list without a suitable adapter, no adapter
\* is ever selected, adapters are examined once each in order, the
\* no-suitable-GPU error is raised only after all of them were examined, and
\* a selection that ended did end with that error.
C5_AllUnsuitableFails ==
    (Len(adapters) >= 1 /\ \A j \in 1..Len(adapters) : ~Suitable(adapters[j])) =>
        /\ physicalDevice = VK_NULL_HANDLE
        /\ \A k \in DOMAIN examined : examined[k] = k
        /\ Len(examined) <= Len(adapters)
        /\ error = NoSuitableMsg => Len(examined) = Len(adapters)
        /\ pc = "pick_check" => Len(examined) = Len(adapters)
        /\ "createLogicalDevice" \notin Range(stages)
        /\ (pc \in {"thrown", "exited"} /\ "pickPhysicalDevice" \in Range(stages))
              => error = NoSuitableMsg

C5_Witness ==
    /\ pc = "exited"
    /\ error = NoSuitableMsg
    /\ Len(adapters) = 3
    /\ examined = <<1, 2, 3>>
    /\ physicalDevice = VK_NULL_HANDLE

\* C6: what findQueueFamilies returns: with k the first index by which a
\* graphics-qualifying and a present-qualifying family have both appeared
\* (the last index if there is none), each field is the greatest qualifying
\* index up to k, or -1. No family: (-1, -1); one family good for both:
\* (0, 0); graphics-only then present-only: (0, 1).
C6_ResolverResult ==
    pc = "fq_return" =>
        LET fams == adapters[fqDevice]
        IN  /\ indices = ExpectedSelection(fams)
            /\ Len(fams) = 0 => indices = EmptyIndices
            /\ (Len(fams) = 1 /\ 0 \in GraphicsQualifying(fams)
                              /\ 0 \in PresentQualifying(fams))
                  => indices = [graphicsFamily |-> 0, presentFamily |-> 0]
            /\ (Len(fams) = 2 /\ GraphicsQualifying(fams) = {0}
                              /\ PresentQualifying(fams) = {1})
                  => indices = [graphicsFamily |-> 0, presentFamily |-> 1]

C6_Witness ==
    /\ pc = "fq_return"
    /\ Len(adapters[fqDevice]) = 3
    /\ GraphicsQualifying(adapters[fqDevice]) = {0, 1}
    /\ PresentQualifying(adapters[fqDevice]) = {2}
    /\ indices = [graphicsFamily |-> 1, presentFamily |-> 2]

\* C7: findQueueFamilies reads the families up to the first index at which
\* both fields are set and none after it, and the selection it returns is
\* the one it returns for every array that differs only after that index.
C7_ShortCircuit ==
    /\ pc \in {"findQueueFamilies", "fq_return"} =>
          inspected \subseteq 0..LastScanned(adapters[fqDevice])
    /\ pc = "fq_return" =>
          LET fams == adapters[fqDevice]
              last == LastScanned(fams)
          IN  /\ inspected = 0..last
              /\ \A rest \in [1..(Len(fams) - 1 - last) -> FamilyRecords] :
                    findQueueFamilies(SubSeq(fams, 1, last + 1) \o rest) = indices

C7_Witness ==
    /\ pc = "fq_return"
    /\ Len(adapters[fqDevice]) = 3
    /\ isComplete(indices)
    /\ inspected = {0}
    /\ GraphicsQualifying(adapters[fqDevice]) = {0, 2}
    /\ PresentQualifying(adapters[fqDevice]) = {0, 1}

\* C8: the requests createLogicalDevice hands to vkCreateDevice: one per
\* distinct index among graphicsFamily and presentFamily of a complete
\* selection, each for one queue, none for another family.
C8_OneRequestPerDistinctFamily ==
    ("device" \in Range(acquired) \/ error = DeviceMsg) =>
        LET n == Len(queueCreateInfos)
        IN  /\ isComplete(indices)
            /\ {queueCreateInfos[k].queueFamilyIndex : k \in 1..n}
                  = {indices.graphicsFamily, indices.presentFamily}
            /\ n = IF indices.graphicsFamily = indices.presentFamily THEN 1 ELSE 2
            /\ \A k \in 1..n : queueCreateInfos[k].queueCount = 1

C8_Witness ==
    /\ "device" \in live
    /\ indices.graphicsFamily = 2
    /\ indices.presentFamily = 2
    /\ queueCreateInfos = <<[queueFamilyIndex |-> 2, queueCount |-> 1]>>

\* C9: once the device has been created, the graphics queue handle and the
\* present queue handle have both been retrieved, at queue index 0 of their
\* families.
C9_BothQueueHandlesRetrieved ==
    "device" \in Range(acquired) =>
        /\ graphicsQueue = <<indices.graphicsFamily, 0>>
        /\ presentQueue = <<indices.presentFamily, 0>>

\* C10: the stages of initVulkan are entered in the order createInstance,
\* createSurface, pickPhysicalDevice, createLogicalDevice, each after the
\* one before it succeeded, and every present-support query is made while
\* instance and surface exist and no device has been created.
C10_StageOrder ==
    /\ IsPrefix(stages, <<"createInstance", "createSurface",
                          "pickPhysicalDevice", "createLogicalDevice">>)
    /\ Len(stages) >= 2 => IsPrefix(<<"window", "instance">>, acquired)
    /\ Len(stages) >= 3 => IsPrefix(<<"window", "instance", "surface">>, acquired)
    /\ Len(stages) >= 4 => physicalDevice # VK_NULL_HANDLE
    /\ "device" \in Range(acquired) => Len(stages) = 4
    /\ \A q \in presentQueries :
          /\ {"instance", "surface"} \subseteq q.live
          /\ "device" \notin Range(q.acquired)

C10_Witness ==
    /\ pc = "mainLoop"
    /\ Len(stages) = 4
    /\ presentQueries # {}
    /\ "device" \in live

Last(q) == q[Len(q)]

NoDuplicates(q) == \A a, b \in DOMAIN q : q[a] = q[b] => a = b

\* the messages a failure of each stage can carry
StageMsgs(stage) ==
    CASE stage = "createInstance" -> {InstanceMsg}
      [] stage = "createSurface" -> {SurfaceMsg}
      [] stage = "pickPhysicalDevice" -> {NoGpuMsg, NoSuitableMsg}
      [] stage = "createLogicalDevice" -> {DeviceMsg}

\* C11: a failed initialization stage keeps the run out of the run loop (no
\* poll, no check of the close flag), its message arrives unchanged at main,
\* and the process status is failure; the status is success only after a run
\* that went through the run loop and the whole teardown.
C11_FailureReported ==
    /\ error # NoError =>
          /\ loopLog = <<>>
          /\ pc \in {"thrown", "exited"}
          /\ stages # <<>> /\ error \in StageMsgs(Last(stages))
          /\ exitCode # EXIT_SUCCESS
          /\ pc = "exited" => exitCode = EXIT_FAILURE
    /\ exitCode = EXIT_FAILURE => error # NoError
    /\ exitCode = EXIT_SUCCESS =>
          /\ error = NoError
          /\ loopLog # <<>>
          /\ destroyed = ReverseHandles

C11_Witness ==
    /\ pc = "exited"
    /\ exitCode = EXIT_FAILURE
    /\ error = SurfaceMsg
    /\ loopLog = <<>>
    /\ stages = <<"createInstance", "createSurface">>

\* C12 as stated: every check of the close flag in the run loop comes right
\* after an event poll, so a poll happens before the first check.
C12_PollBeforeEveryCheck ==
    \A k \in DOMAIN loopLog :
        loopLog[k] \in {"check_true", "check_false"} =>
            k > 1 /\ loopLog[k - 1] = "poll"

\* C12 as amended: each iteration checks the close flag first and polls
\* afterwards: the loop's events alternate check, poll, check, ..., starting
\* with a check, and every poll comes right after a check that saw the flag
\* false.
C12_CheckBeforeEveryPoll ==
    \A k \in DOMAIN loopLog :
        /\ (k % 2 = 1) <=> loopLog[k] \in {"check_true", "check_false"}
        /\ loopLog[k] = "poll" => k > 1 /\ loopLog[k - 1] = "check_false"

C12_Witness ==
    /\ loopLog = <<"check_false", "poll", "check_false", "poll", "check_true">>
    /\ pc = "cleanup"

\* C13: the run loop ends at the first check that sees the close flag true:
\* nothing follows that check in the loop, teardown starts right after it
\* with the device, and teardown never starts otherwise.
C13_ExitOnObservedClose ==
    /\ \A k \in DOMAIN loopLog : loopLog[k] = "check_true" => k = Len(loopLog)
    /\ (loopLog # <<>> /\ Last(loopLog) = "check_true") =>
          /\ pc \in {"cleanup", "return", "exited"}
          /\ destroyed = <<>> => pc = "cleanup"
          /\ destroyed # <<>> => destroyed[1] = "device"
    /\ (pc \in {"cleanup", "return"} \/ destroyed # <<>>) =>
          loopLog # <<>> /\ Last(loopLog) = "check_true"
    /\ (loopLog # <<>> /\ Last(loopLog) = "check_false") => pc = "pollEvents"

C13_Witness ==
    /\ loopLog = <<"check_false", "poll", "check_true">>
    /\ destroyed = <<"device">>
    /\ pc = "cleanup"

\* C14: no stage is attempted twice in a run, and once a stage has failed
\* nothing is acquired, enumerated, examined, selected or requested any more.
C14_NoRetry ==
    /\ [](NoDuplicates(stages) /\ NoDuplicates(acquired))
    /\ [][error # NoError =>
            UNCHANGED <<stages, acquired, examined, physicalDevice,
                        presentQueries, queueCreateInfos, error>>]_vars

C14_Witness ==
    /\ pc = "exited"
    /\ error = InstanceMsg
    /\ stages = <<"createInstance">>
    /\ acquired = <<"window">>

\* C15: findQueueFamilies returns a complete selection exactly for an
\* adapter with a graphics-qualifying family and a present-qualifying family;
\* each field is -1 or the index of a family that qualifies for it; no error
\* is raised while it runs or when it returns an incomplete selection.
C15_CompleteIffCapable ==
    /\ pc \in {"findQueueFamilies", "fq_return"} => error = NoError
    /\ pc = "fq_return" =>
          LET fams == adapters[fqDevice]
          IN  /\ isComplete(indices) <=> Suitable(fams)
              /\ indices.graphicsFamily \in {NoFamily} \cup GraphicsQualifying(fams)
              /\ indices.presentFamily \in {NoFamily} \cup PresentQualifying(fams)

C15_Witness ==
    /\ pc = "fq_return"
    /\ Len(adapters[fqDevice]) = 3
    /\ indices = [graphicsFamily |-> 1, presentFamily |-> NoFamily]
    /\ adapters[fqDevice][3].graphics
    /\ adapters[fqDevice][3].present
    /\ error = NoError

\* C16: when createLogicalDevice runs, physicalDevice is one of the
\* enumerated adapters, the selection computed again for it is complete and
\* equal to the one that made pickPhysicalDevice accept it, and no request
\* and no queue retrieval carries the index -1.
C16_RecomputedSelection ==
    /\ "createLogicalDevice" \in Range(stages) =>
          /\ physicalDevice \in 1..Len(adapters)
          /\ fqDevice = physicalDevice
          /\ isComplete(certified)
          /\ pc # "findQueueFamilies" => indices = certified
    /\ \A k \in DOMAIN queueCreateInfos :
          queueCreateInfos[k].queueFamilyIndex \in
              0..(Len(adapters[physicalDevice]) - 1)
    /\ presentQueue # Uninit => presentQueue[1] >= 0

C16_Witness ==
    /\ "device" \in live
    /\ physicalDevice = 2
    /\ certified = [graphicsFamily |-> 0, presentFamily |-> 1]
    /\ indices = certified
    /\ Len(queueCreateInfos) = 2
    /\ presentQueue = <<1, 0>>

\* C17: in every state of every run, only acquired handles have been
\* destroyed, none twice; the device is alive only while surface and instance
\* are, and the surface only while the instance is.
C17_OwnershipChain ==
    /\ Range(destroyed) \subseteq Range(acquired)
    /\ NoDuplicates(destroyed)
    /\ live = Range(acquired) \ Range(destroyed)
    /\ "device" \in live => {"surface", "instance"} \subseteq live
    /\ "surface" \in live => "instance" \in live

C17_Witness ==
    /\ pc = "cleanup"
    /\ destroyed = <<"device", "surface">>
    /\ live = {"instance", "window"}

\* C18: under fairness initialization ends, by success or by failure; a
\* failure leads to the failure exit; if the close flag becomes true and
\* stays true the run leaves the loop, tears everything down and exits with
\* success; nothing happens after the exit.
C18_Termination ==
    /\ <>(pc \in {"mainLoop", "thrown"})
    /\ (pc = "thrown") ~> (pc = "exited" /\ exitCode = EXIT_FAILURE)
    /\ (<>[]closeFlag) =>
          <>(pc = "exited" /\ exitCode = EXIT_SUCCESS /\ live = {}
                           /\ destroyed = ReverseHandles)
    /\ [][pc # "exited"]_vars

C18_Witness ==
    /\ pc = "exited"
    /\ exitCode = EXIT_SUCCESS
    /\ closeFlag
    /\ Polls = MaxPolls
    /\ live = {}

====
